---- MODULE Spec2Model ----
(***************************************************************************)
(* Course catalog application (src/app.py) and its code-generating        *)
(* variant (src/tempCodeRunnerFile.py): the JSON backing file, the three   *)
(* route handlers, and the lock-protected metrics counters.                *)
(***************************************************************************)
EXTENDS Integers, Sequences, FiniteSets, TLC

VARIABLES
    file,          \* COURSE_FILE on disk: [exists, text]
    metrics,       \* the global metrics dict: [request_count, error_count]
    metrics_lock,  \* holder of metrics_lock (0 = free)
    resp,          \* outcome of the last request handled (sequential runs)
    added,         \* courses whose add request reported success, in order
    threads,       \* per request-thread position and locals (concurrent runs)
    started,       \* number of requests / calls started so far
    returned       \* values returned by completed increment_* calls

vars == <<file, metrics, metrics_lock, resp, added, threads, started, returned>>

(***************************************************************************)
(* Bounds                                                                  *)
(***************************************************************************)
MaxRequests == 3      \* requests handled in a sequential run
NumThreads == 2       \* request threads of a concurrent run
MaxConcRequests == 3  \* requests started in a concurrent run
MaxCalls == 4         \* increment_* calls started in a metrics run

Threads == 1..NumThreads

(***************************************************************************)
(* Values                                                                  *)
(***************************************************************************)
\* Python None, as request.form.get returns for a key the form lacks.
None == "<None>"

\* Python truthiness of a form value: None and "" are falsy.
Falsy(v) == v = None \/ v = ""

OptionalKeys ==
    {"semester", "schedule", "classroom", "prerequisites", "grading", "Description"}

FormKeys == {"course-code", "courseName", "instructor"} \cup OptionalKeys

AllAbsent == [k \in OptionalKeys |-> None]

AllSupplied ==
    [k \in OptionalKeys |->
        CASE k = "semester" -> "Fall"
          [] k = "schedule" -> "MWF 10"
          [] k = "classroom" -> "R101"
          [] k = "prerequisites" -> "CS101"
          [] k = "grading" -> "A-F"
          [] k = "Description" -> "Desc"]

Mixed ==
    [k \in OptionalKeys |->
        CASE k = "semester" -> ""
          [] k = "schedule" -> None
          [] k = "classroom" -> "R101"
          [] k = "prerequisites" -> ""
          [] k = "grading" -> None
          [] k = "Description" -> "Desc"]

OptionalProfiles == {AllAbsent, AllSupplied, Mixed}

CodeInputs == {None, "", "C001", "c001"}
NameInputs == {None, "", "Intro"}
InstructorInputs == {None, "", "A. Smith"}

Form(c, n, i, opt) ==
    [k \in FormKeys |->
        CASE k = "course-code" -> c
          [] k = "courseName" -> n
          [] k = "instructor" -> i
          [] OTHER -> opt[k]]

Forms ==
    {Form(c, n, i, o) : c \in CodeInputs, n \in NameInputs,
                        i \in InstructorInputs, o \in OptionalProfiles}

\* Codes asked of /course/<code> (a URL path segment is never empty).
LookupCodes == {"C001", "c001", "ZZZ"}

(***************************************************************************)
(* JSON text                                                               *)
(***************************************************************************)
CourseKeys ==
    {"code", "name", "instructor", "semester", "schedule", "classroom",
     "prerequisites", "grading", "Description"}

JNull == [t |-> "null"]
JString(s) == [t |-> "string", s |-> s]

LBracket == [t |-> "["]
RBracket == [t |-> "]"]
JObject(o) == [t |-> "obj", v |-> o]

\* json encoding of one value: None is written as null, a str as a string.
json_encode_value(v) == IF v = None THEN JNull ELSE JString(v)

json_decode_value(j) == IF j.t = "null" THEN None ELSE j.s

\* json.dump(courses, file): the token sequence "[", one object per course, "]".
json_dump(courses) ==
    <<LBracket>>
    \o [i \in 1..Len(courses) |->
            JObject([k \in DOMAIN courses[i] |-> json_encode_value(courses[i][k])])]
    \o <<RBracket>>

\* json.load(file): the list, or JSONDecodeError when the text is no JSON array.
json_load(text) ==
    LET n == Len(text)
        wellFormed ==
            /\ n >= 2
            /\ text[1] = LBracket
            /\ text[n] = RBracket
            /\ \A i \in 2..(n - 1) : text[i].t = "obj"
    IN  IF wellFormed
        THEN [ok |-> TRUE,
              value |-> [i \in 1..(n - 2) |->
                            [k \in DOMAIN text[i + 1].v |->
                                json_decode_value(text[i + 1].v[k])]]]
        ELSE [ok |-> FALSE, value |-> <<>>]

(***************************************************************************)
(* The backing file                                                        *)
(***************************************************************************)
AbsentFile == [exists |-> FALSE, text |-> <<>>]

\* open(COURSE_FILE, 'w'): creates the file or truncates it to nothing.
open_w(f) == [exists |-> TRUE, text |-> <<>>]

\* A write of `data` from offset 0 through a handle opened before: it overlays
\* the current text and leaves whatever lies beyond the written part.
write_at_start(f, data) ==
    [exists |-> TRUE,
     text |-> IF Len(f.text) > Len(data)
              THEN data \o SubSeq(f.text, Len(data) + 1, Len(f.text))
              ELSE data]

load_courses_creates(f) ==
    IF ~f.exists
    THEN [raised |-> FALSE, courses |-> <<>>,
          file |-> [exists |-> TRUE, text |-> json_dump(<<>>)]]
    ELSE LET r == json_load(f.text)
         IN  [raised |-> ~r.ok, courses |-> r.value, file |-> f]

load_courses_no_exists_check(f) ==
    LET r == json_load(f.text)
    IN  [raised |-> ~r.ok, courses |-> r.value, file |-> f]

\* load_courses(): [] when the file does not exist, else json.load of it.
\* `file` is the backing file after the call.
load_courses(f) ==
    IF ~f.exists
    THEN [raised |-> FALSE, courses |-> <<>>, file |-> f]
    ELSE LET r == json_load(f.text)
         IN  [raised |-> ~r.ok, courses |-> r.value, file |-> f]

save_courses_overwrites(f, data) ==
    [raised |-> FALSE, file |-> write_at_start(open_w(f), json_dump(<<data>>))]

\* save_courses(data) run without interruption: load, append, open 'w', dump.
save_courses(f, data) ==
    LET l == load_courses(f)
    IN  IF l.raised
        THEN [raised |-> TRUE, file |-> l.file]
        ELSE [raised |-> FALSE,
              file |-> write_at_start(open_w(l.file),
                                      json_dump(Append(l.courses, data)))]

(***************************************************************************)
(* Metrics                                                                 *)
(***************************************************************************)
\* increment_requests() as one step: the lock makes its body atomic.
increment_requests(m) == [m EXCEPT !.request_count = @ + 1]

\* increment_errors() as one step.
increment_errors(m) == [m EXCEPT !.error_count = @ + 1]

\* after_request: one more increment_requests for every response.
after_request(m) == increment_requests(m)

(***************************************************************************)
(* add_courses, course_details: the pure parts                             *)
(***************************************************************************)
missing_fields_forgets_instructor(form) ==
    (IF Falsy(form["course-code"]) THEN <<"Course Code">> ELSE <<>>)
    \o (IF Falsy(form["courseName"]) THEN <<"Course Name">> ELSE <<>>)

\* The missing_fields list of add_courses; empty when the form is accepted.
missing_fields(form) ==
    IF Falsy(form["course-code"]) \/ Falsy(form["courseName"])
       \/ Falsy(form["instructor"])
    THEN (IF Falsy(form["course-code"]) THEN <<"Course Code">> ELSE <<>>)
         \o (IF Falsy(form["courseName"]) THEN <<"Course Name">> ELSE <<>>)
         \o (IF Falsy(form["instructor"]) THEN <<"Instructor">> ELSE <<>>)
    ELSE <<>>

\* The course dictionary add_courses builds from the form.
course_dict(form) ==
    [k \in CourseKeys |->
        CASE k = "code" -> form["course-code"]
          [] k = "name" -> form["courseName"]
          [] OTHER -> form[k]]

RECURSIVE last_match(_, _)
last_match(courses, code) ==
    IF courses = <<>> THEN [found |-> FALSE, course |-> None]
    ELSE IF courses[Len(courses)]["code"] = code
         THEN [found |-> TRUE, course |-> courses[Len(courses)]]
         ELSE last_match(SubSeq(courses, 1, Len(courses) - 1), code)

\* next((course for course in courses if course['code'] == code), None)
RECURSIVE find_course(_, _)
find_course(courses, code) ==
    IF courses = <<>> THEN [found |-> FALSE, course |-> None]
    ELSE IF Head(courses)["code"] = code
         THEN [found |-> TRUE, course |-> Head(courses)]
         ELSE find_course(Tail(courses), code)

(***************************************************************************)
(* Sequential runs: every request is handled to completion before the next *)
(***************************************************************************)
NoResp == [op |-> "none"]

InitCommon ==
    /\ file = AbsentFile
    /\ metrics = [request_count |-> 0, error_count |-> 0]
    /\ metrics_lock = 0
    /\ resp = NoResp
    /\ added = <<>>
    /\ started = 0
    /\ returned = <<>>

Init ==
    /\ InitCommon
    /\ threads = <<>>

\* GET /catalog
CourseCatalog ==
    /\ started < MaxRequests
    /\ started' = started + 1
    /\ LET l == load_courses(file)
       IN  /\ file' = l.file
           /\ IF l.raised
              THEN /\ resp' = [op |-> "catalog", outcome |-> "JSONDecodeError"]
                   /\ metrics' = increment_requests(metrics)
              ELSE /\ resp' = [op |-> "catalog", outcome |-> "rendered",
                               courses |-> l.courses]
                   /\ metrics' = after_request(increment_requests(metrics))
    /\ UNCHANGED <<metrics_lock, added, threads, returned>>

\* GET /add_courses
AddCoursesGet ==
    /\ started < MaxRequests
    /\ started' = started + 1
    /\ resp' = [op |-> "add_form", outcome |-> "rendered"]
    /\ metrics' = after_request(increment_requests(metrics))
    /\ UNCHANGED <<file, metrics_lock, added, threads, returned>>

\* POST /add_courses
AddCourses(form) ==
    /\ started < MaxRequests
    /\ started' = started + 1
    /\ LET missing == missing_fields(form)
       IN  IF missing # <<>>
           THEN /\ resp' = [op |-> "add", form |-> form, outcome |-> "missing",
                            missing |-> missing, saved |-> FALSE]
                /\ metrics' =
                       after_request(increment_errors(increment_requests(metrics)))
                /\ UNCHANGED <<file, added>>
           ELSE LET s == save_courses(file, course_dict(form))
                IN  /\ file' = s.file
                    /\ IF s.raised
                       THEN /\ resp' = [op |-> "add", form |-> form,
                                        outcome |-> "JSONDecodeError",
                                        missing |-> <<>>, saved |-> TRUE]
                            /\ metrics' = increment_requests(metrics)
                            /\ UNCHANGED added
                       ELSE /\ resp' = [op |-> "add", form |-> form,
                                        outcome |-> "added",
                                        missing |-> <<>>, saved |-> TRUE]
                            /\ metrics' =
                                   after_request(increment_requests(metrics))
                            /\ added' = Append(added, course_dict(form))
    /\ UNCHANGED <<metrics_lock, threads, returned>>

\* GET /course/<code>
CourseDetails(code) ==
    /\ started < MaxRequests
    /\ started' = started + 1
    /\ LET l == load_courses(file)
           r == find_course(l.courses, code)
       IN  /\ file' = l.file
           /\ IF l.raised
              THEN /\ resp' = [op |-> "details", code |-> code,
                               outcome |-> "JSONDecodeError"]
                   /\ metrics' = increment_requests(metrics)
              ELSE IF ~r.found
              THEN /\ resp' = [op |-> "details", code |-> code,
                               outcome |-> "not_found"]
                   /\ metrics' =
                          after_request(increment_errors(increment_requests(metrics)))
              ELSE /\ resp' = [op |-> "details", code |-> code,
                               outcome |-> "rendered", course |-> r.course]
                   /\ metrics' = after_request(increment_requests(metrics))
    /\ UNCHANGED <<metrics_lock, added, threads, returned>>

Next ==
    \/ CourseCatalog
    \/ AddCoursesGet
    \/ \E form \in Forms : AddCourses(form)
    \/ \E code \in LookupCodes : CourseDetails(code)

Spec == Init /\ [][Next]_vars

(***************************************************************************)
(* Properties of sequential runs                                           *)
(***************************************************************************)
\* The catalog a listing of file f returns.
Catalog(f) == IF f.exists THEN json_load(f.text).value ELSE <<>>

\* A step that handled a request (every request advances `started`).
Handled == started' # started

RequiredLabels ==
    [k \in {"course-code", "courseName", "instructor"} |->
        CASE k = "course-code" -> "Course Code"
          [] k = "courseName" -> "Course Name"
          [] k = "instructor" -> "Instructor"]

EmptyRequired(form) == {k \in DOMAIN RequiredLabels : Falsy(form[k])}

SeqToSet(s) == {s[i] : i \in DOMAIN s}

\* C2: after an add request with code c, name n, instructor i succeeded, the
\* lookup course_details(c) that follows renders a course carrying exactly the
\* code, name, instructor and optional fields that were submitted.
C2_AddThenLookupRoundTrip ==
    [][(/\ resp.op = "add"
        /\ resp.outcome = "added"
        /\ resp'.op = "details"
        /\ Handled
        /\ resp'.code = resp.form["course-code"])
       => /\ resp'.outcome = "rendered"
          /\ resp'.course["code"] = resp.form["course-code"]
          /\ resp'.course["name"] = resp.form["courseName"]
          /\ resp'.course["instructor"] = resp.form["instructor"]
          /\ \A k \in OptionalKeys : resp'.course[k] = resp.form[k]]_vars

\* C3: an add request is rejected exactly when one of code, name, instructor
\* is empty or absent; the rejection lists exactly those fields, does not call
\* save_courses and leaves the persisted catalog as it was.
C3_ValidationRejectsExactlyMissing ==
    /\ [](resp.op = "add" =>
            /\ (resp.outcome = "missing") <=> (EmptyRequired(resp.form) # {})
            /\ resp.outcome = "missing" =>
                 /\ SeqToSet(resp.missing) =
                        {RequiredLabels[k] : k \in EmptyRequired(resp.form)}
                 /\ Len(resp.missing) = Cardinality(EmptyRequired(resp.form))
                 /\ ~resp.saved
            /\ EmptyRequired(resp.form) = {} => resp.outcome = "added")
    /\ [][(Handled /\ resp'.op = "add" /\ EmptyRequired(resp'.form) # {})
          => file' = file /\ added' = added]_vars

C3_Witness ==
    /\ resp.op = "add"
    /\ resp.outcome = "missing"
    /\ resp.missing = <<"Course Code", "Instructor">>
    /\ Len(Catalog(file)) = 2

\* C4: without concurrency a successful add lengthens the persisted catalog by
\* one, puts the new course last and keeps every earlier course in place; any
\* other request leaves the catalog as it is; so the catalog, and every
\* listing of it, is the added courses in the order they were added.
C4_SequentialAppendOnly ==
    /\ [](/\ file.exists => json_load(file.text).ok
          /\ Catalog(file) = added
          /\ (resp.op = "catalog" => resp.outcome = "rendered"
                                      /\ resp.courses = added))
    /\ [][Handled =>
            IF resp'.op = "add" /\ resp'.outcome = "added"
            THEN /\ Len(Catalog(file')) = Len(Catalog(file)) + 1
                 /\ SubSeq(Catalog(file'), 1, Len(Catalog(file))) = Catalog(file)
                 /\ LET new == Catalog(file')[Len(Catalog(file'))]
                    IN  /\ new["code"] = resp'.form["course-code"]
                        /\ new["name"] = resp'.form["courseName"]
                        /\ new["instructor"] = resp'.form["instructor"]
            ELSE Catalog(file') = Catalog(file)]_vars

C4_Witness ==
    /\ resp.op = "catalog"
    /\ Len(resp.courses) = 2
    /\ resp.courses[1]["code"] = "c001"
    /\ resp.courses[2]["code"] = "C001"

\* C5: course_details(code) ends not-found exactly when no course of the
\* catalog has a code equal to the input (case matters); otherwise it renders
\* the first course in catalog order whose code equals the input.
C5_LookupFirstMatchOrNotFound ==
    resp.op = "details" =>
        LET cat == Catalog(file)
            hits == {i \in 1..Len(cat) : cat[i]["code"] = resp.code}
        IN  /\ resp.outcome \in {"not_found", "rendered"}
            /\ (resp.outcome = "not_found") <=> (hits = {})
            /\ resp.outcome = "rendered" =>
                 \E i \in hits : /\ \A j \in hits : i <= j
                                 /\ resp.course = cat[i]

C5_Witness ==
    /\ resp.op = "details"
    /\ resp.outcome = "rendered"
    /\ Len(Catalog(file)) = 2
    /\ Catalog(file)[1]["code"] = Catalog(file)[2]["code"]
    /\ Catalog(file)[1] # Catalog(file)[2]

C5_WitnessNotFound ==
    /\ resp.op = "details"
    /\ resp.outcome = "not_found"
    /\ resp.code = "c001"
    /\ Len(Catalog(file)) = 2
    /\ Catalog(file)[1]["code"] = "C001"

\* C7: a catalog listing or a lookup (found or not) leaves the backing file
\* unchanged, and a listing that directly follows a listing returns the same
\* sequence.
C7_ReadsLeaveFileUnchanged ==
    [][(Handled /\ resp'.op \in {"catalog", "details"}) =>
          /\ file' = file
          /\ (resp.op = "catalog" /\ resp'.op = "catalog"
                => resp'.courses = resp.courses)]_vars

C7_Witness ==
    /\ resp.op = "catalog"
    /\ started = 3
    /\ metrics.request_count = 6
    /\ Len(resp.courses) = 1

\* C8: with the backing file absent, load_courses returns the empty sequence
\* without raising and without creating the file, and the first successful add
\* leaves a catalog holding exactly the added course.
C8_AbsentFileIsEmptyCatalog ==
    [][(Handled /\ ~file.exists) =>
          /\ resp'.op = "catalog" =>
                resp'.outcome = "rendered" /\ resp'.courses = <<>> /\ file' = file
          /\ resp'.op = "details" => resp'.outcome = "not_found" /\ file' = file
          /\ resp'.op = "add" /\ resp'.outcome # "missing" =>
                /\ resp'.outcome = "added"
                /\ file'.exists
                /\ json_load(file'.text).ok
                /\ Len(json_load(file'.text).value) = 1
                /\ json_load(file'.text).value[1]["code"] = resp'.form["course-code"]
                /\ json_load(file'.text).value[1]["name"] = resp'.form["courseName"]
                /\ json_load(file'.text).value[1]["instructor"]
                      = resp'.form["instructor"]
                /\ \A k \in OptionalKeys :
                      json_load(file'.text).value[1][k] = resp'.form[k]]_vars

C8_Witness ==
    /\ resp.op = "add"
    /\ resp.outcome = "added"
    /\ Len(added) = 1
    /\ started = 3
    /\ metrics.error_count = 1

(***************************************************************************)
(* Metrics runs: concurrent calls of increment_requests / increment_errors *)
(* taken one bytecode-level step at a time                                 *)
(***************************************************************************)
MetricFns == {"increment_requests", "increment_errors"}

\* The counter each function works on.
MetricKey(fn) ==
    IF fn = "increment_requests" THEN "request_count" ELSE "error_count"

IdleCall == [pc |-> "idle", fn |-> "none", tmp |-> 0, ret |-> 0]

InitMetrics ==
    /\ InitCommon
    /\ threads = [t \in Threads |-> IdleCall]

lock_never_blocks(lock, t) == TRUE

\* `with metrics_lock:` is entered only while no thread holds the lock.
lock_acquirable(lock, t) == lock = 0

\* A thread calls increment_requests() or increment_errors().
CallIncrement(t, fn) ==
    /\ threads[t].pc = "idle"
    /\ started < MaxCalls
    /\ started' = started + 1
    /\ threads' = [threads EXCEPT ![t] = [IdleCall EXCEPT !.pc = "acquire", !.fn = fn]]
    /\ UNCHANGED <<file, metrics, metrics_lock, resp, added, returned>>

\* with metrics_lock: (enter)
AcquireLock(t) ==
    /\ threads[t].pc = "acquire"
    /\ lock_acquirable(metrics_lock, t)
    /\ metrics_lock' = t
    /\ threads' = [threads EXCEPT ![t].pc = "load"]
    /\ UNCHANGED <<file, metrics, resp, added, started, returned>>

\* metrics[key] += 1, first half: read the counter.
LoadCounter(t) ==
    /\ threads[t].pc = "load"
    /\ threads' = [threads EXCEPT ![t].pc = "store",
                                  ![t].tmp = metrics[MetricKey(threads[t].fn)]]
    /\ UNCHANGED <<file, metrics, metrics_lock, resp, added, started, returned>>

\* metrics[key] += 1, second half: store the sum.
StoreCounter(t) ==
    /\ threads[t].pc = "store"
    /\ metrics' = [metrics EXCEPT ![MetricKey(threads[t].fn)] = threads[t].tmp + 1]
    /\ threads' = [threads EXCEPT ![t].pc = "return"]
    /\ UNCHANGED <<file, metrics_lock, resp, added, started, returned>>

\* return metrics[key]: the value is read inside the with block.
ReadReturnValue(t) ==
    /\ threads[t].pc = "return"
    /\ threads' = [threads EXCEPT ![t].pc = "release",
                                  ![t].ret = metrics[MetricKey(threads[t].fn)]]
    /\ UNCHANGED <<file, metrics, metrics_lock, resp, added, started, returned>>

\* with metrics_lock: (exit), and the call returns to its caller.
ReleaseLock(t) ==
    /\ threads[t].pc = "release"
    /\ metrics_lock' = 0
    /\ returned' = Append(returned, [fn |-> threads[t].fn, value |-> threads[t].ret])
    /\ threads' = [threads EXCEPT ![t] = IdleCall]
    /\ UNCHANGED <<file, metrics, resp, added, started>>

NextMetrics ==
    \/ \E t \in Threads, fn \in MetricFns : CallIncrement(t, fn)
    \/ \E t \in Threads : AcquireLock(t)
    \/ \E t \in Threads : LoadCounter(t)
    \/ \E t \in Threads : StoreCounter(t)
    \/ \E t \in Threads : ReadReturnValue(t)
    \/ \E t \in Threads : ReleaseLock(t)

SpecMetrics == InitMetrics /\ [][NextMetrics]_vars

\* The values returned so far by completed calls of fn, in completion order.
ReturnedBy(fn) ==
    LET F[i \in 0..Len(returned)] ==
            IF i = 0 THEN <<>>
            ELSE IF returned[i].fn = fn THEN Append(F[i - 1], returned[i].value)
                 ELSE F[i - 1]
    IN  F[Len(returned)]

InProgress(fn) == {t \in Threads : threads[t].pc # "idle" /\ threads[t].fn = fn}

\* C9: under any interleaving no increment is lost: the k completed calls of
\* increment_requests returned the k distinct values 1..k, the counter is k
\* once no call is in progress (and never below k), likewise for
\* increment_errors, and neither counter ever decreases.
C9_NoLostIncrement ==
    /\ [](\A fn \in MetricFns :
            LET vals == ReturnedBy(fn)
                k == Len(vals)
            IN  /\ SeqToSet(vals) = 1..k
                /\ metrics[MetricKey(fn)] >= k
                /\ InProgress(fn) = {} => metrics[MetricKey(fn)] = k)
    /\ [][/\ metrics'.request_count >= metrics.request_count
          /\ metrics'.error_count >= metrics.error_count]_vars

C9_Witness ==
    /\ ReturnedBy("increment_requests") = <<1>>
    /\ ReturnedBy("increment_errors") = <<1>>
    /\ \E t \in Threads : threads[t].pc = "store"
    /\ \E t \in Threads : threads[t].pc = "acquire"

(***************************************************************************)
(* Concurrent runs of src/app.py: request threads interleave at every      *)
(* access to the backing file                                              *)
(***************************************************************************)
ConcForms ==
    {Form("C001", "Intro", "A. Smith", AllAbsent),
     Form("c001", "Intro", "A. Smith", AllSupplied),
     Form(None, "Intro", "", Mixed)}

ConcLookupCodes == {"C001", "ZZZ"}

IdleThread == [pc |-> "idle", op |-> "none", arg |-> None, loaded |-> <<>>]

InitConc ==
    /\ InitCommon
    /\ threads = [t \in Threads |-> IdleThread]

\* GET /catalog arrives: increment_requests, then load_courses is entered.
BeginCatalog(t) ==
    /\ threads[t].pc = "idle"
    /\ started < MaxConcRequests
    /\ started' = started + 1
    /\ metrics' = increment_requests(metrics)
    /\ threads' = [threads EXCEPT ![t] = [IdleThread EXCEPT !.pc = "exists",
                                                            !.op = "catalog"]]
    /\ UNCHANGED <<file, metrics_lock, resp, added, returned>>

\* GET /course/<code> arrives.
BeginDetails(t, code) ==
    /\ threads[t].pc = "idle"
    /\ started < MaxConcRequests
    /\ started' = started + 1
    /\ metrics' = increment_requests(metrics)
    /\ threads' = [threads EXCEPT ![t] = [IdleThread EXCEPT !.pc = "exists",
                                                            !.op = "details",
                                                            !.arg = code]]
    /\ UNCHANGED <<file, metrics_lock, resp, added, returned>>

\* GET /add_courses arrives: the form is rendered.
BeginAddGet(t) ==
    /\ threads[t].pc = "idle"
    /\ started < MaxConcRequests
    /\ started' = started + 1
    /\ metrics' = increment_requests(metrics)
    /\ threads' = [threads EXCEPT ![t] = [IdleThread EXCEPT !.pc = "after",
                                                            !.op = "add_form"]]
    /\ UNCHANGED <<file, metrics_lock, resp, added, returned>>

\* POST /add_courses arrives: validation; a valid form enters save_courses.
BeginAdd(t, form) ==
    /\ threads[t].pc = "idle"
    /\ started < MaxConcRequests
    /\ started' = started + 1
    /\ IF missing_fields(form) # <<>>
       THEN /\ metrics' = increment_errors(increment_requests(metrics))
            /\ threads' = [threads EXCEPT ![t] = [IdleThread EXCEPT !.pc = "after",
                                                                    !.op = "add"]]
       ELSE /\ metrics' = increment_requests(metrics)
            /\ threads' = [threads EXCEPT ![t] = [IdleThread EXCEPT !.pc = "exists",
                                                                    !.op = "save",
                                                                    !.arg = course_dict(form)]]
    /\ UNCHANGED <<file, metrics_lock, resp, added, returned>>

\* load_courses: os.path.exists(COURSE_FILE); [] is returned when it is false.
LoadExists(t) ==
    /\ threads[t].pc = "exists"
    /\ threads' = [threads EXCEPT ![t].pc = IF file.exists THEN "read" ELSE "ret",
                                  ![t].loaded = <<>>]
    /\ UNCHANGED <<file, metrics, metrics_lock, resp, added, started, returned>>

\* load_courses: open 'r' and json.load. A JSONDecodeError is not handled: the
\* request ends with it, with or without after_request (app.run(debug=True)
\* re-raises, a production server answers 500).
LoadRead(t) ==
    /\ threads[t].pc = "read"
    /\ LET r == json_load(file.text)
       IN  IF r.ok
           THEN threads' = [threads EXCEPT ![t].pc = "ret", ![t].loaded = r.value]
           ELSE \/ threads' = [threads EXCEPT ![t] = [IdleThread EXCEPT !.pc = "after",
                                                                        !.op = "failed"]]
                \/ threads' = [threads EXCEPT ![t] = IdleThread]
    /\ UNCHANGED <<file, metrics, metrics_lock, resp, added, started, returned>>

\* course_catalog after load_courses returned: the listing is rendered.
CatalogRender(t) ==
    /\ threads[t].pc = "ret"
    /\ threads[t].op = "catalog"
    /\ threads' = [threads EXCEPT ![t].pc = "after"]
    /\ UNCHANGED <<file, metrics, metrics_lock, resp, added, started, returned>>

\* course_details after load_courses returned: scan, render or not-found.
DetailsRender(t) ==
    /\ threads[t].pc = "ret"
    /\ threads[t].op = "details"
    /\ metrics' = IF find_course(threads[t].loaded, threads[t].arg).found
                  THEN metrics ELSE increment_errors(metrics)
    /\ threads' = [threads EXCEPT ![t].pc = "after"]
    /\ UNCHANGED <<file, metrics_lock, resp, added, started, returned>>

\* save_courses: courses.append(data); open(COURSE_FILE, 'w') truncates.
SaveOpen(t) ==
    /\ threads[t].pc = "ret"
    /\ threads[t].op = "save"
    /\ file' = open_w(file)
    /\ threads' = [threads EXCEPT ![t].pc = "dump",
                                  ![t].loaded = Append(@, threads[t].arg)]
    /\ UNCHANGED <<metrics, metrics_lock, resp, added, started, returned>>

\* save_courses: json.dump reaches the file when the with block closes it;
\* add_courses then reports success.
SaveDump(t) ==
    /\ threads[t].pc = "dump"
    /\ file' = write_at_start(file, json_dump(threads[t].loaded))
    /\ added' = Append(added, threads[t].arg)
    /\ threads' = [threads EXCEPT ![t].pc = "after"]
    /\ UNCHANGED <<metrics, metrics_lock, resp, started, returned>>

\* after_request: increment_requests, and the response leaves.
AfterRequest(t) ==
    /\ threads[t].pc = "after"
    /\ metrics' = after_request(metrics)
    /\ threads' = [threads EXCEPT ![t] = IdleThread]
    /\ UNCHANGED <<file, metrics_lock, resp, added, started, returned>>

NextConc ==
    \/ \E t \in Threads : BeginCatalog(t)
    \/ \E t \in Threads, code \in ConcLookupCodes : BeginDetails(t, code)
    \/ \E t \in Threads : BeginAddGet(t)
    \/ \E t \in Threads, form \in ConcForms : BeginAdd(t, form)
    \/ \E t \in Threads : LoadExists(t)
    \/ \E t \in Threads : LoadRead(t)
    \/ \E t \in Threads : CatalogRender(t)
    \/ \E t \in Threads : DetailsRender(t)
    \/ \E t \in Threads : SaveOpen(t)
    \/ \E t \in Threads : SaveDump(t)
    \/ \E t \in Threads : AfterRequest(t)

SpecConc == InitConc /\ [][NextConc]_vars

AllReturned == \A t \in Threads : threads[t].pc = "idle"

Occurrences(cat, code) == Cardinality({i \in 1..Len(cat) : cat[i]["code"] = code})

\* C1: once N concurrent add requests with valid fields and pairwise distinct
\* codes, none of them in the catalog before, have all returned, the persisted
\* catalog holds each of the N codes exactly once.
C1_ConcurrentAddsAllPersist ==
    (/\ AllReturned
     /\ \A i, j \in 1..Len(added) : i # j => added[i]["code"] # added[j]["code"])
    => /\ file.exists => json_load(file.text).ok
       /\ \A i \in 1..Len(added) : Occurrences(Catalog(file), added[i]["code"]) = 1

\* C6: in every state, the intermediate states of a save_courses write
\* included, the backing file is absent or holds a complete JSON array of
\* course objects, so no load_courses call can fail on it.
C6_FileAlwaysParses ==
    file.exists =>
        /\ json_load(file.text).ok
        /\ \A i \in 1..Len(json_load(file.text).value) :
              DOMAIN json_load(file.text).value[i] = CourseKeys

(***************************************************************************)
(* Concurrent runs of src/tempCodeRunnerFile.py: add_courses generates the *)
(* course code from the length of the catalog it loaded                    *)
(***************************************************************************)
GenOptionalKeys == {"semester", "schedule", "classroom", "prerequisites", "grading"}

GenFormKeys == {"courseName", "instructor"} \cup GenOptionalKeys

GenForm(n, i, opt) ==
    [k \in GenFormKeys |->
        CASE k = "courseName" -> n
          [] k = "instructor" -> i
          [] OTHER -> opt[k]]

GenForms ==
    {GenForm("Intro", "A. Smith", AllAbsent),
     GenForm("Algo", "B. Jones", AllSupplied),
     GenForm("", "A. Smith", Mixed),
     GenForm("Intro", None, AllAbsent)}

Digit(d) ==
    CASE d = 0 -> "0" [] d = 1 -> "1" [] d = 2 -> "2" [] d = 3 -> "3"
      [] d = 4 -> "4" [] d = 5 -> "5" [] d = 6 -> "6" [] d = 7 -> "7"
      [] d = 8 -> "8" [] d = 9 -> "9"

RECURSIVE Decimal(_)
Decimal(n) == IF n < 10 THEN Digit(n) ELSE Decimal(n \div 10) \o Digit(n % 10)

\* f"C{n:03d}": the decimal digits of n, zero-padded to at least 3.
format_code(n) ==
    "C" \o (IF n < 10 THEN "00" ELSE IF n < 100 THEN "0" ELSE "") \o Decimal(n)

\* The missing_fields list of the variant's add_courses.
gen_missing_fields(form) ==
    IF Falsy(form["courseName"]) \/ Falsy(form["instructor"])
    THEN (IF Falsy(form["courseName"]) THEN <<"Course Name">> ELSE <<>>)
         \o (IF Falsy(form["instructor"]) THEN <<"Instructor">> ELSE <<>>)
    ELSE <<>>

\* The course dictionary of the variant: the generated code and the form.
gen_course_dict(code, form) ==
    [k \in {"code", "name", "instructor"} \cup GenOptionalKeys |->
        CASE k = "code" -> code
          [] k = "name" -> form["courseName"]
          [] OTHER -> form[k]]

InitGen ==
    /\ InitCommon
    /\ threads = [t \in Threads |-> IdleThread]

\* POST /add_courses arrives: validation; a valid form goes on to load_courses.
GenBeginAdd(t, form) ==
    /\ threads[t].pc = "idle"
    /\ started < MaxConcRequests
    /\ started' = started + 1
    /\ threads' = IF gen_missing_fields(form) # <<>>
                  THEN threads
                  ELSE [threads EXCEPT ![t] = [IdleThread EXCEPT !.pc = "exists",
                                                                 !.op = "add",
                                                                 !.arg = form]]
    /\ UNCHANGED <<file, metrics, metrics_lock, resp, added, returned>>

\* GET /catalog arrives.
GenBeginCatalog(t) ==
    /\ threads[t].pc = "idle"
    /\ started < MaxConcRequests
    /\ started' = started + 1
    /\ threads' = [threads EXCEPT ![t] = [IdleThread EXCEPT !.pc = "exists",
                                                            !.op = "catalog"]]
    /\ UNCHANGED <<file, metrics, metrics_lock, resp, added, returned>>

\* load_courses: os.path.exists(COURSE_FILE); [] is returned when it is false.
GenLoadExists(t) ==
    /\ threads[t].pc = "exists"
    /\ threads' = [threads EXCEPT ![t].pc = IF file.exists THEN "read" ELSE "ret",
                                  ![t].loaded = <<>>]
    /\ UNCHANGED <<file, metrics, metrics_lock, resp, added, started, returned>>

\* load_courses: open 'r' and json.load; a JSONDecodeError ends the request.
GenLoadRead(t) ==
    /\ threads[t].pc = "read"
    /\ LET r == json_load(file.text)
       IN  threads' = IF r.ok
                      THEN [threads EXCEPT ![t].pc = "ret", ![t].loaded = r.value]
                      ELSE [threads EXCEPT ![t] = IdleThread]
    /\ UNCHANGED <<file, metrics, metrics_lock, resp, added, started, returned>>

\* course_catalog after load_courses returned: the listing is rendered.
GenCatalogRender(t) ==
    /\ threads[t].pc = "ret"
    /\ threads[t].op = "catalog"
    /\ threads' = [threads EXCEPT ![t] = IdleThread]
    /\ UNCHANGED <<file, metrics, metrics_lock, resp, added, started, returned>>

\* add_courses after load_courses returned: the code is generated, the course
\* built and save_courses entered.
GenAssignCode(t) ==
    /\ threads[t].pc = "ret"
    /\ threads[t].op = "add"
    /\ threads' = [threads EXCEPT
                     ![t].pc = "exists",
                     ![t].op = "save",
                     ![t].arg = gen_course_dict(format_code(Len(threads[t].loaded) + 1),
                                                threads[t].arg),
                     ![t].loaded = <<>>]
    /\ UNCHANGED <<file, metrics, metrics_lock, resp, added, started, returned>>

\* save_courses: courses.append(data); open(COURSE_FILE, 'w') truncates.
GenSaveOpen(t) ==
    /\ threads[t].pc = "ret"
    /\ threads[t].op = "save"
    /\ file' = open_w(file)
    /\ threads' = [threads EXCEPT ![t].pc = "dump",
                                  ![t].loaded = Append(@, threads[t].arg)]
    /\ UNCHANGED <<metrics, metrics_lock, resp, added, started, returned>>

\* save_courses: json.dump reaches the file; add_courses reports success.
GenSaveDump(t) ==
    /\ threads[t].pc = "dump"
    /\ file' = write_at_start(file, json_dump(threads[t].loaded))
    /\ added' = Append(added, threads[t].arg)
    /\ threads' = [threads EXCEPT ![t] = IdleThread]
    /\ UNCHANGED <<metrics, metrics_lock, resp, started, returned>>

NextGen ==
    \/ \E t \in Threads, form \in GenForms : GenBeginAdd(t, form)
    \/ \E t \in Threads : GenBeginCatalog(t)
    \/ \E t \in Threads : GenLoadExists(t)
    \/ \E t \in Threads : GenLoadRead(t)
    \/ \E t \in Threads : GenCatalogRender(t)
    \/ \E t \in Threads : GenAssignCode(t)
    \/ \E t \in Threads : GenSaveOpen(t)
    \/ \E t \in Threads : GenSaveDump(t)

SpecGen == InitGen /\ [][NextGen]_vars

\* C10: in the variant that generates the code as C followed by the
\* zero-padded (catalog length + 1), the code given to a newly added course
\* differs from the code of every course already in the catalog, for
\* sequential adds and for adds that run concurrently.
C10_GeneratedCodeIsNew ==
    [][\A t \in Threads :
          (threads[t].pc = "dump" /\ threads'[t].pc = "idle")
          => \A i \in 1..Len(Catalog(file')) - 1 :
                Catalog(file')[i]["code"] # threads[t].arg["code"]]_vars

====
